---- MODULE Spec2Model ----
(***************************************************************************)
(* wifebot: configuration resolution (platform.py, loader.py) and the      *)
(* platform registry / CLI dispatcher (factory.py, main.py).               *)
(*                                                                         *)
(* Python values are tagged records [t |-> type name, v |-> payload]; a    *)
(* dict's payload is a function from its keys, JSON null loads as None.    *)
(***************************************************************************)
EXTENDS Integers, Sequences, FiniteSets, TLC

VARIABLES
    entry,        \* how the program is entered: "main", "run_from_args",
                  \* "create_platform", "Platform"
    env,          \* the process environment (XDG_CONFIG_HOME)
    fs,           \* the files the program reads: default config, --config file, template
    args,         \* the parsed command line (argparse namespace)
    stdin,        \* answers typed so far at the interactive prompt
    pc,           \* position of the single thread of control
    factory,      \* PlatformFactory fields (config_path), or NoFactory
    config,       \* keyword arguments handed to the platform constructor
    selected,     \* platform name run_single_platform was called with
    queue,        \* platforms run_all_platforms still has to iterate over
    in_all,       \* TRUE while inside run_all_platforms' loop
    profile,      \* the Platform instance under construction / running
    fail_at,      \* external call of run that raised the exception in flight
    exc,          \* exception in flight ("none" if none)
    exc_args,     \* what the message of the exception in flight says
    calls,        \* external calls the current run has made, in order
    started,      \* per platform: BrowserSession.start() returned
    stop_calls,   \* per platform: number of BrowserSession.stop() calls
    built,        \* platforms whose constructor was entered, in order
    attempts,     \* platforms run_single_platform was called with, in order
    out,          \* kinds of messages printed
    exit_status   \* process exit status, -1 while running

vars == <<entry, env, fs, args, stdin, pc, factory, config, selected, queue,
          in_all, profile, fail_at, exc, exc_args, calls, started, stop_calls,
          built, attempts, out, exit_status>>

\* ---------------------------------------------------------------- values

None == [t |-> "NoneType"]
PyBool(b) == [t |-> "bool", v |-> b]
PyInt(i) == [t |-> "int", v |-> i]
PyFloat(i) == [t |-> "float", v |-> i]
PyStr(s) == [t |-> "str", v |-> s]
PyDict(f) == [t |-> "dict", v |-> f]
PyList(s) == [t |-> "list", v |-> s]

\* The empty mapping.
EmptyMap == [k \in {} |-> None]

EmptyDict == PyDict(EmptyMap)

\* Python truth value of x (bool(x)).
Truthy(x) ==
    CASE x.t = "NoneType" -> FALSE
      [] x.t = "bool" -> x.v
      [] x.t = "int" -> x.v # 0
      [] x.t = "float" -> x.v # 0
      [] x.t = "str" -> x.v # ""
      [] x.t = "dict" -> DOMAIN x.v # {}
      [] x.t = "list" -> Len(x.v) > 0

\* d1 updated with d2 (dict literal / keyword merging).
Merge(d1, d2) ==
    [k \in DOMAIN d1 \cup DOMAIN d2 |-> IF k \in DOMAIN d2 THEN d2[k] ELSE d1[k]]

\* mapping.get(key)
DictGet(mapping, key) == IF key \in DOMAIN mapping THEN mapping[key] ELSE None

\* ---------------------------------------------------------------- loader.py

Split2(a, b) == <<a, b>>
Split3(a, b, c) == <<a, b, c>>

\* key_path.split('.') for the dotted keys the program uses.
SplitPath(key_path) ==
    CASE key_path = "browser.headless" -> Split2("browser", "headless")
      [] key_path = "browser.viewport.width" -> Split3("browser", "viewport", "width")
      [] key_path = "browser.viewport.height" -> Split3("browser", "viewport", "height")
      [] key_path = "browser.minimum_wait_page_load_time"
            -> Split2("browser", "minimum_wait_page_load_time")
      [] key_path = "browser.maximum_wait_page_load_time"
            -> Split2("browser", "maximum_wait_page_load_time")
      [] key_path = "llm.model" -> Split2("llm", "model")
      [] key_path = "verbose" -> <<"verbose">>
      [] key_path = "paths.profile_dir_template" -> Split2("paths", "profile_dir_template")
      [] key_path = "paths.trace_path_template" -> Split2("paths", "trace_path_template")

\* value[key] raises KeyError (missing key) or TypeError (value is not a
\* mapping: str, list, number, bool and None all reject a str subscript).
Subscriptable(value, key) == value.t = "dict" /\ key \in DOMAIN value.v

RECURSIVE Walk(_, _, _)
Walk(value, keys, default) ==
    IF keys = <<>> THEN value
    ELSE IF Subscriptable(value, Head(keys))
         THEN Walk(value.v[Head(keys)], Tail(keys), default)
         ELSE default

get_default_config_value(cfg, key_path, default) ==
    Walk(cfg, SplitPath(key_path), default)

\* template.format(platform=platform) for the templates the model uses: a
\* {platform} placeholder is replaced, any other placeholder is a KeyError,
\* a string without placeholders is returned as it is.
FormatPlatform(template, platform) ==
    CASE template = "~/.config/browseruse/profiles/{platform}"
            -> [exc |-> "none", value |-> "~/.config/browseruse/profiles/" \o platform]
      [] template = "/tmp/wifebot/{platform}"
            -> [exc |-> "none", value |-> "/tmp/wifebot/" \o platform]
      [] template = "/data/{platform}/profile"
            -> [exc |-> "none", value |-> "/data/" \o platform \o "/profile"]
      [] template = "/traces/{platform}.zip"
            -> [exc |-> "none", value |-> "/traces/" \o platform \o ".zip"]
      [] template = "/srv/{user}/traces"
            -> [exc |-> "KeyError", value |-> ""]
      [] OTHER -> [exc |-> "none", value |-> template]

\* expand_path_template: only a str has a format method.
expand_path_template(template, platform) ==
    IF template.t # "str"
    THEN [exc |-> "AttributeError", value |-> None]
    ELSE LET formatted == FormatPlatform(template.v, platform)
         IN  [exc |-> formatted.exc,
              value |-> IF formatted.exc = "none" THEN PyStr(formatted.value) ELSE None]

get_profile_dir(cfg, platform, custom_dir) ==
    IF Truthy(custom_dir)
    THEN [exc |-> "none", value |-> custom_dir]
    ELSE expand_path_template(
             get_default_config_value(cfg, "paths.profile_dir_template",
                 PyStr("~/.config/browseruse/profiles/{platform}")),
             platform)

get_trace_path(cfg, platform, custom_path) ==
    IF Truthy(custom_path)
    THEN [exc |-> "none", value |-> custom_path]
    ELSE expand_path_template(
             get_default_config_value(cfg, "paths.trace_path_template",
                 PyStr("/tmp/wifebot/{platform}")),
             platform)

\* Files: a path maps to a missing file, a file that is not well-formed
\* JSON, or a file holding a JSON document.
Missing == [kind |-> "missing"]
Malformed == [kind |-> "malformed"]
Json(doc) == [kind |-> "json", doc |-> doc]
Text == [kind |-> "text"]

DefaultConfigPath == "~/.config/wifebot/config.json"
CliConfigPath == "cli.json"
BaseTaskTemplate == "prompts/base_task.tpl"

\* os.environ.get('XDG_CONFIG_HOME'), or ~/.config when unset or empty.
get_xdg_config_home(environ) ==
    IF Truthy(DictGet(environ, "XDG_CONFIG_HOME"))
    THEN environ["XDG_CONFIG_HOME"].v
    ELSE "~/.config"

get_default_config_path(environ) ==
    get_xdg_config_home(environ) \o "/wifebot/config.json"

\* What the file system holds at path p (paths nobody wrote do not exist).
FileAt(files, p) == IF p \in DOMAIN files THEN files[p] ELSE Missing

\* load_config: the document, or the exception raised.
load_config(environ, files, config_path) ==
    LET path == IF config_path = None
                THEN get_default_config_path(environ) ELSE config_path.v
        f == FileAt(files, path)
    IN  CASE f.kind = "missing" -> [exc |-> "FileNotFoundError", value |-> None]
          [] f.kind = "malformed" -> [exc |-> "JSONDecodeError", value |-> None]
          [] OTHER -> [exc |-> "none", value |-> f.doc]

\* render_prompt_template: jinja2 raises when the template file is absent.
render_prompt_template(files, template_name, cfg) ==
    IF FileAt(files, template_name).kind = "text"
    THEN [exc |-> "none", value |-> PyStr("base_task")]
    ELSE [exc |-> "TemplateNotFound", value |-> None]

\* ---------------------------------------------------------------- platform.py

Settings == {"headless", "viewport_width", "viewport_height", "min_wait",
             "max_wait", "model", "verbose"}

defaults ==
    [headless |-> PyBool(FALSE), viewport_width |-> PyInt(1280),
     viewport_height |-> PyInt(1100), min_wait |-> PyInt(1), max_wait |-> PyInt(10),
     model |-> PyStr("gpt-4o-mini"), verbose |-> PyBool(FALSE)]

\* The dotted configuration key __init__ passes for each setting.
ConfigKey ==
    [headless |-> "browser.headless", viewport_width |-> "browser.viewport.width",
     viewport_height |-> "browser.viewport.height",
     min_wait |-> "browser.minimum_wait_page_load_time",
     max_wait |-> "browser.maximum_wait_page_load_time",
     model |-> "llm.model", verbose |-> "verbose"]

\* Variant: the override is used only when it is truthy (kwargs.get(...) or ...).
resolve_config_value_truthy(param_name, kwargs, cfg, config_key, default_value) ==
    IF param_name \in DOMAIN kwargs /\ Truthy(kwargs[param_name])
    THEN kwargs[param_name]
    ELSE LET config_value == get_default_config_value(cfg, config_key, None)
         IN  IF config_value # None THEN config_value ELSE default_value

\* Variant: a configuration value is used only when it is truthy.
resolve_config_value_file_truthy(param_name, kwargs, cfg, config_key, default_value) ==
    IF param_name \in DOMAIN kwargs
    THEN kwargs[param_name]
    ELSE LET config_value == get_default_config_value(cfg, config_key, None)
         IN  IF Truthy(config_value) THEN config_value ELSE default_value

resolve_config_value(param_name, kwargs, cfg, config_key, default_value) ==
    IF param_name \in DOMAIN kwargs
    THEN kwargs[param_name]
    ELSE LET config_value == get_default_config_value(cfg, config_key, None)
         IN  IF config_value # None THEN config_value ELSE default_value

NoProfile == [name |-> "none"]

\* Variant: the constructor lets FileNotFoundError propagate.
ConfigOrRaise(loaded) == loaded

\* Variant: the constructor swallows every failure of load_config.
ConfigOrEmptyAlways(loaded) ==
    IF loaded.exc # "none" THEN [exc |-> "none", value |-> EmptyDict] ELSE loaded

\* __init__'s try/except around load_config: a missing file gives {}.
ConfigOrEmpty(loaded) ==
    IF loaded.exc = "FileNotFoundError"
    THEN [exc |-> "none", value |-> EmptyDict]
    ELSE loaded

\* Platform.__init__ of the variant `name`, called with the keyword
\* arguments kw (config_path is a named parameter, the rest is **kwargs).
PlatformInit(environ, files, name, kw) ==
    LET config_path == DictGet(kw, "config_path")
        kwargs == [k \in DOMAIN kw \ {"config_path"} |-> kw[k]]
        loaded == ConfigOrEmpty(load_config(environ, files, config_path))
        cfg == loaded.value
        rendered == render_prompt_template(files, BaseTaskTemplate, cfg)
        R(s) == resolve_config_value(s, kwargs, cfg, ConfigKey[s], defaults[s])
    IN  IF loaded.exc # "none"
        THEN [exc |-> loaded.exc, value |-> NoProfile]
        ELSE IF rendered.exc # "none"
        THEN [exc |-> rendered.exc, value |-> NoProfile]
        ELSE [exc |-> "none",
              value |-> [name |-> name, config |-> cfg,
                         headless |-> R("headless"),
                         viewport_width |-> R("viewport_width"),
                         viewport_height |-> R("viewport_height"),
                         min_wait |-> R("min_wait"), max_wait |-> R("max_wait"),
                         model |-> R("model"), verbose |-> R("verbose"),
                         custom_profile_dir |-> DictGet(kwargs, "profile_dir"),
                         custom_trace_path |-> DictGet(kwargs, "trace_path")]]

\* The profile_dir and trace_path properties of the instance p.
profile_dir(p) == get_profile_dir(p.config, p.name, p.custom_profile_dir)

trace_path(p) == get_trace_path(p.config, p.name, p.custom_trace_path)

\* ---------------------------------------------------------------- factory.py

\* An exception whose message the model does not look at.
NoExcArgs == [text |-> "", name |-> "", available |-> <<>>]

\* PlatformFactory.platforms, in declaration order.
platforms == <<"bumble", "tinder", "hinge", "okcupid">>

get_available_platforms == platforms

PlatformNames == {platforms[i] : i \in 1..Len(platforms)}

NoFactory == [ready |-> FALSE, config_path |-> None]

\* PlatformFactory.__init__: the factory, or the exception load_config raised.
FactoryInit(environ, files, config_path) ==
    LET loaded == load_config(environ, files, config_path)
    IN  IF loaded.exc # "none"
        THEN [exc |-> loaded.exc, value |-> NoFactory]
        ELSE [exc |-> "none", value |-> [ready |-> TRUE, config_path |-> config_path]]

\* The argparse namespace when no argument is given.
NoArgs ==
    [interactive |-> FALSE, platform |-> None, config |-> None,
     headless |-> FALSE, viewport_width |-> None, viewport_height |-> None,
     min_wait |-> None, max_wait |-> None, profile_dir |-> None,
     trace_path |-> None, model |-> None, verbose |-> FALSE]

\* argparse `choices` of the positional argument.
Choices == PlatformNames \cup {"all"}

\* parser.parse_args(): an invalid choice is an argparse error (status 2).
ParseOk(a) == a.platform = None \/ a.platform.v \in Choices

ConfigKeys == {"config_path", "headless", "viewport_width", "viewport_height",
               "min_wait", "max_wait", "model", "verbose", "profile_dir",
               "trace_path"}

\* Variant: the path the factory was constructed with is preferred to the
\* --config flag.
extract_platform_config_factory_first(a, self_config_path) ==
    LET Present(k) ==
            CASE k = "config_path" -> Truthy(a.config) \/ Truthy(self_config_path)
              [] k = "headless" -> a.headless
              [] k = "verbose" -> a.verbose
              [] k = "profile_dir" -> Truthy(a.profile_dir)
              [] k = "trace_path" -> Truthy(a.trace_path)
              [] OTHER -> a[k] # None
        Value(k) ==
            CASE k = "config_path" ->
                    IF Truthy(self_config_path) THEN self_config_path ELSE a.config
              [] k = "headless" -> PyBool(TRUE)
              [] k = "verbose" -> PyBool(TRUE)
              [] OTHER -> a[k]
    IN  [k \in {x \in ConfigKeys : Present(x)} |-> Value(k)]

extract_platform_config(a, self_config_path) ==
    LET Present(k) ==
            CASE k = "config_path" -> Truthy(a.config) \/ Truthy(self_config_path)
              [] k = "headless" -> a.headless
              [] k = "verbose" -> a.verbose
              [] k = "profile_dir" -> Truthy(a.profile_dir)
              [] k = "trace_path" -> Truthy(a.trace_path)
              [] OTHER -> a[k] # None
        Value(k) ==
            CASE k = "config_path" ->
                    IF Truthy(a.config) THEN a.config ELSE self_config_path
              [] k = "headless" -> PyBool(TRUE)
              [] k = "verbose" -> PyBool(TRUE)
              [] OTHER -> a[k]
    IN  [k \in {x \in ConfigKeys : Present(x)} |-> Value(k)]

\* int(input(...)) for the answers the model types; anything else is a
\* ValueError.
ParseInt(s) ==
    CASE s = "1" -> [ok |-> TRUE, n |-> 1]
      [] s = "2" -> [ok |-> TRUE, n |-> 2]
      [] s = "3" -> [ok |-> TRUE, n |-> 3]
      [] s = "4" -> [ok |-> TRUE, n |-> 4]
      [] s = "5" -> [ok |-> TRUE, n |-> 5]
      [] s = "6" -> [ok |-> TRUE, n |-> 6]
      [] s = "0" -> [ok |-> TRUE, n |-> 0]
      [] s = "99" -> [ok |-> TRUE, n |-> 99]
      [] s = "-1" -> [ok |-> TRUE, n |-> 0 - 1]
      [] OTHER -> [ok |-> FALSE, n |-> 0]

\* Variant: the range test forgets the lower bound (`choice <= len(...)`);
\* platforms[choice - 1] then indexes from the end for 0 and negatives.
ChooseNoLowerBound(s) ==
    LET parsed == ParseInt(s)
        choice == parsed.n
        n == Len(get_available_platforms)
    IN  IF ~parsed.ok THEN [kind |-> "reprompt", msg |-> "Please enter a valid number."]
        ELSE IF choice = n + 2 THEN [kind |-> "return", value |-> None]
        ELSE IF choice = n + 1 THEN [kind |-> "return", value |-> PyStr("all")]
        ELSE IF choice <= n /\ choice > 0 - n
             THEN [kind |-> "return",
                   value |-> PyStr(get_available_platforms[
                                IF choice >= 1 THEN choice ELSE n + choice])]
        ELSE [kind |-> "reprompt", msg |-> "Invalid choice."]

\* One pass of interactive_mode's loop on the answer s: the value returned,
\* or a re-prompt.
Choose(s) ==
    LET parsed == ParseInt(s)
        choice == parsed.n
        n == Len(get_available_platforms)
    IN  IF ~parsed.ok THEN [kind |-> "reprompt", msg |-> "Please enter a valid number."]
        ELSE IF choice = n + 2 THEN [kind |-> "return", value |-> None]
        ELSE IF choice = n + 1 THEN [kind |-> "return", value |-> PyStr("all")]
        ELSE IF 1 <= choice /\ choice <= n
             THEN [kind |-> "return", value |-> PyStr(get_available_platforms[choice])]
        ELSE [kind |-> "reprompt", msg |-> "Invalid choice."]

\* ---------------------------------------------------------------- inputs

\* Configuration documents the files may hold.
DocFull ==
    PyDict([browser |-> PyDict([headless |-> PyBool(TRUE),
                                viewport |-> PyDict([width |-> PyInt(800),
                                                     height |-> PyInt(600)]),
                                minimum_wait_page_load_time |-> PyInt(2),
                                maximum_wait_page_load_time |-> PyInt(20)]),
            llm |-> PyDict([model |-> PyStr("gpt-4.1")]),
            verbose |-> PyBool(TRUE)])

DocFalsy ==
    PyDict([browser |-> PyDict([headless |-> PyBool(FALSE),
                                viewport |-> PyDict([width |-> PyInt(0)]),
                                minimum_wait_page_load_time |-> PyFloat(0)]),
            llm |-> PyDict([model |-> PyStr("")]),
            verbose |-> PyBool(FALSE)])

DocNull ==
    PyDict([browser |-> PyDict([headless |-> None, viewport |-> None,
                                maximum_wait_page_load_time |-> PyInt(30)]),
            llm |-> PyDict([model |-> None]),
            verbose |-> None])

\* Intermediate nodes that are not mappings: a string, a list, a number.
DocScalarNode ==
    PyDict([browser |-> PyStr("chromium"),
            llm |-> PyList(<<PyStr("gpt-4.1")>>),
            verbose |-> PyInt(1)])

DocMixed ==
    PyDict([browser |-> PyDict([viewport |-> PyInt(1024),
                                headless |-> PyDict(EmptyMap)]),
            llm |-> PyDict(EmptyMap)])

\* Path templates: usable ones, and ones format() cannot expand (a null,
\* a placeholder other than {platform}).
DocPaths ==
    PyDict([paths |-> PyDict([profile_dir_template |-> PyStr("/data/{platform}/profile"),
                              trace_path_template |-> PyStr("/traces/{platform}.zip")])])

DocBadPaths ==
    PyDict([paths |-> PyDict([profile_dir_template |-> None,
                              trace_path_template |-> PyStr("/srv/{user}/traces")])])

Docs == {EmptyDict, DocFull, DocFalsy, DocNull, DocScalarNode, DocMixed,
         DocPaths, DocBadPaths}

\* Keyword arguments a caller constructs a platform with.
KwFalsy ==
    [headless |-> PyBool(FALSE), viewport_width |-> PyInt(0),
     min_wait |-> PyFloat(0), model |-> PyStr(""), verbose |-> PyBool(FALSE)]

KwSome ==
    [headless |-> PyBool(TRUE), viewport_height |-> PyInt(1080),
     max_wait |-> PyFloat(15), model |-> PyStr("gpt-4")]

KwNone == [model |-> None, viewport_width |-> None]

KwPaths == [profile_dir |-> PyStr("/custom/profile"), trace_path |-> PyStr("/custom/trace")]

KwEmptyPaths == [profile_dir |-> PyStr(""), verbose |-> PyBool(TRUE)]

KwargsSets == {EmptyMap, KwFalsy, KwSome, KwNone, KwPaths, KwEmptyPaths}

\* Command lines.
ArgFlagSets ==
    { NoArgs,
      [NoArgs EXCEPT !.headless = TRUE, !.model = PyStr("gpt-4")],
      [NoArgs EXCEPT !.viewport_width = PyInt(0), !.verbose = TRUE] }

PlatformArgs == {None, PyStr("all"), PyStr("grindr")} \cup {PyStr(p) : p \in PlatformNames}

\* Answers typed at the interactive prompt; "EOF" closes standard input.
Answers == {"abc", "99", "0", "-1", "1", "2", "3", "4", "5", "6", "EOF"}

MaxPrompts == 3

FsOf(default, cli, template) ==
    [x \in {DefaultConfigPath, CliConfigPath, BaseTaskTemplate} |->
        IF x = DefaultConfigPath THEN default
        ELSE IF x = CliConfigPath THEN cli ELSE template]

Quiet(sel) ==
    /\ stdin = <<>>
    /\ selected = sel
    /\ queue = <<>>
    /\ in_all = FALSE
    /\ profile = NoProfile
    /\ fail_at = "none"
    /\ exc = "none"
    /\ exc_args = NoExcArgs
    /\ calls = <<>>
    /\ started = [p \in PlatformNames |-> FALSE]
    /\ stop_calls = [p \in PlatformNames |-> 0]
    /\ built = <<>>
    /\ attempts = <<>>
    /\ out = {}
    /\ exit_status = 0 - 1

\* The process is started from the command line (main.py).
InitMain ==
    /\ entry = "main"
    /\ env = EmptyMap
    /\ pc = "async_main"
    /\ factory = NoFactory
    /\ config = EmptyMap
    /\ \E flags \in ArgFlagSets, pl \in PlatformArgs, i \in BOOLEAN,
          c \in {None, PyStr(CliConfigPath)} :
          /\ (flags # NoArgs => ~i /\ pl # None /\ pl.v \in PlatformNames)
          /\ args = [flags EXCEPT !.platform = pl, !.interactive = i, !.config = c]
    /\ \E d \in {Missing, Malformed, Json(DocFull)},
          c \in {Missing, Malformed, Json(DocFalsy)}, t \in {Text, Missing} :
          /\ (args.config = None => c = Missing)
          /\ (args.interactive => t = Text)
          /\ (args.interactive /\ args.config # None => c = Malformed)
          /\ fs = FsOf(d, c, t)
    /\ Quiet("none")

\* The environments the process runs in: XDG_CONFIG_HOME unset, set, empty.
XdgConfigHome == "/xdg"
XdgConfigPath == "/xdg/wifebot/config.json"
Environs ==
    {EmptyMap,
     [x \in {"XDG_CONFIG_HOME"} |-> PyStr(XdgConfigHome)],
     [x \in {"XDG_CONFIG_HOME"} |-> PyStr("")]}

\* The path a caller constructs the factory with.
CtorConfigPath == "ctor.json"

\* Files at the XDG path and at the factory's path, each with its own document.
FsMore ==
    [x \in {XdgConfigPath, CtorConfigPath} |->
        IF x = XdgConfigPath THEN Json(DocFull) ELSE Json(DocPaths)]

\* A caller holds a factory and calls run_from_args with a namespace.
InitRunFromArgs ==
    /\ entry = "run_from_args"
    /\ pc = "run_from_args"
    /\ config = EmptyMap
    /\ \E pl \in {None, PyStr("all"), PyStr("grindr"), PyStr("hinge")},
          i \in BOOLEAN, c \in {None, PyStr(CliConfigPath), PyStr("")} :
          /\ (c = PyStr("") => ~i /\ pl = PyStr("hinge"))
          /\ args = [NoArgs EXCEPT !.platform = pl, !.interactive = i, !.config = c]
    /\ \E c \in {Missing, Malformed, Json(DocFalsy)} :
          /\ (~Truthy(args.config) => c = Missing)
          /\ (args.interactive /\ args.config # None => c = Malformed)
          /\ fs = Merge(FsOf(Json(EmptyDict), c, Text), FsMore)
    /\ \E e \in Environs, ctor \in {None, PyStr(CtorConfigPath)} :
          /\ (e # EmptyMap \/ ctor # None) =>
                /\ ~args.interactive
                /\ args.platform \in {PyStr("all"), PyStr("hinge")}
          /\ env = e
          /\ factory = FactoryInit(env, fs, ctor).value
    /\ factory.ready
    /\ Quiet("none")

\* A caller constructs one platform directly and runs it.
InitPlatform ==
    /\ entry = "Platform"
    /\ env = EmptyMap
    /\ pc = "construct"
    /\ factory = NoFactory
    /\ args = NoArgs
    /\ \E kw \in KwargsSets, c \in {None, PyStr(CliConfigPath)} :
          config = IF c = None THEN kw ELSE Merge(kw, [config_path |-> c])
    /\ \E d \in {Missing, Json(DocFull)},
          c \in {Missing, Malformed} \cup {Json(doc) : doc \in Docs},
          t \in {Text, Missing} :
          /\ ("config_path" \notin DOMAIN config => c = Missing)
          /\ fs = FsOf(d, c, t)
    /\ \E p \in {"tinder", "okcupid"} : Quiet(p)

\* Names create_platform is called with: registered ones and others.
CreateNames == {"bumble", "okcupid", "grindr", "", "Tinder"}

\* A caller holds a factory and calls create_platform with a name.
InitCreatePlatform ==
    /\ entry = "create_platform"
    /\ env = EmptyMap
    /\ pc = "create_platform"
    /\ args = NoArgs
    /\ \E kw \in KwargsSets, c \in {None, PyStr(CliConfigPath)} :
          config = IF c = None THEN kw ELSE Merge(kw, [config_path |-> c])
    /\ \E c \in {Missing, Malformed, Json(DocFalsy)}, t \in {Text, Missing} :
          /\ ("config_path" \notin DOMAIN config => c = Missing)
          /\ fs = FsOf(Json(EmptyDict), c, t)
    /\ factory = FactoryInit(env, fs, None).value
    /\ factory.ready
    /\ \E p \in CreateNames : Quiet(p)

Init == InitMain \/ InitRunFromArgs \/ InitPlatform \/ InitCreatePlatform

\* ---------------------------------------------------------------- main.py

Msg(m) == [msg |-> m, platform |-> ""]
PMsg(m, p) == [msg |-> m, platform |-> p]

\* async_main up to the dispatch: build the factory, parse the command
\* line.  Nothing catches what PlatformFactory() raises; argparse exits
\* with status 2 on an invalid choice.
AsyncMain ==
    /\ pc = "async_main"
    /\ LET made == FactoryInit(env, fs, None)
       IN  IF made.exc # "none"
           THEN /\ exc' = made.exc
                /\ out' = out \cup {Msg("Traceback")}
                /\ exit_status' = 1
                /\ pc' = "exit"
                /\ UNCHANGED factory
           ELSE IF ~ParseOk(args)
           THEN /\ exc' = "SystemExit"
                /\ out' = out \cup {Msg("usage: invalid choice")}
                /\ exit_status' = 2
                /\ pc' = "exit"
                /\ factory' = made.value
           ELSE /\ factory' = made.value
                /\ pc' = "run_from_args"
                /\ UNCHANGED <<exc, out, exit_status>>
    /\ UNCHANGED <<entry, env, fs, args, stdin, config, selected, queue, in_all,
                   profile, fail_at, started, stop_calls, built, attempts>>
    /\ UNCHANGED <<exc_args, calls>>

\* ---------------------------------------------------------------- dispatch

\* Variant: the positional platform is looked at before the interactive flag.
DispatchPlatformFirst(a) ==
    IF a.platform = PyStr("all") THEN "all"
    ELSE IF a.platform # None /\ a.platform.v \in PlatformNames THEN "single"
    ELSE IF a.interactive THEN "interactive"
    ELSE IF a.platform = None THEN "missing"
    ELSE "unknown"

\* The branch run_from_args takes: its if / elif chain, in order.
Dispatch(a) ==
    IF a.interactive THEN "interactive"
    ELSE IF a.platform = PyStr("all") THEN "all"
    ELSE IF a.platform # None /\ a.platform.v \in PlatformNames THEN "single"
    ELSE IF a.platform = None THEN "missing"
    ELSE "unknown"

\* run_from_args: extract the overrides and take one branch.
RunFromArgs ==
    /\ pc = "run_from_args"
    /\ config' = extract_platform_config(args, factory.config_path)
    /\ LET branch == Dispatch(args)
       IN  CASE branch = "interactive" ->
                  /\ pc' = "interactive_mode"
                  /\ out' = out \cup {Msg("Available dating platforms:")}
                  /\ UNCHANGED <<selected, exc, exit_status>>
             [] branch = "all" ->
                  /\ pc' = "run_all_platforms"
                  /\ UNCHANGED <<selected, out, exc, exit_status>>
             [] branch = "single" ->
                  /\ pc' = "run_single_platform"
                  /\ selected' = args.platform.v
                  /\ UNCHANGED <<out, exc, exit_status>>
             [] branch = "missing" ->
                  /\ out' = out \cup {Msg("Error: You must specify a platform or use --interactive")}
                  /\ exc' = "SystemExit"
                  /\ exit_status' = 1
                  /\ pc' = "exit"
                  /\ UNCHANGED selected
             [] OTHER ->
                  /\ out' = out \cup {Msg("Error: Unknown platform")}
                  /\ exc' = "SystemExit"
                  /\ exit_status' = 1
                  /\ pc' = "exit"
                  /\ UNCHANGED selected
    /\ UNCHANGED <<entry, env, fs, args, stdin, factory, queue, in_all, profile,
                   fail_at, started, stop_calls, built, attempts>>
    /\ UNCHANGED <<exc_args, calls>>

\* interactive_mode: one answer is read.  A rejected answer prompts again;
\* end of input makes input() raise EOFError, which run_from_args catches.
InteractiveMode ==
    /\ pc = "interactive_mode"
    /\ \E s \in Answers :
          /\ Len(stdin) < MaxPrompts
          /\ stdin' = Append(stdin, s)
          /\ IF s = "EOF"
             THEN /\ exc' = "EOFError"
                  /\ pc' = "fatal"
                  /\ UNCHANGED <<selected, out, exit_status>>
             ELSE LET r == Choose(s)
                  IN  IF r.kind = "reprompt"
                      THEN /\ out' = out \cup {Msg(r.msg)}
                           /\ UNCHANGED <<pc, selected, exc, exit_status>>
                      ELSE IF r.value = None
                      THEN /\ out' = out \cup {Msg("Goodbye!")}
                           /\ exit_status' = 0
                           /\ pc' = "exit"
                           /\ UNCHANGED <<selected, exc>>
                      ELSE IF r.value = PyStr("all")
                      THEN /\ pc' = "run_all_platforms"
                           /\ UNCHANGED <<selected, out, exc, exit_status>>
                      ELSE /\ pc' = "run_single_platform"
                           /\ selected' = r.value.v
                           /\ UNCHANGED <<out, exc, exit_status>>
    /\ UNCHANGED <<entry, env, fs, args, factory, config, queue, in_all, profile,
                   fail_at, started, stop_calls, built, attempts>>
    /\ UNCHANGED <<exc_args, calls>>

\* run_all_platforms: entry, and each turn of its for loop.
RunAllPlatforms ==
    /\ pc = "run_all_platforms"
    /\ queue' = get_available_platforms
    /\ in_all' = TRUE
    /\ out' = out \cup {Msg("Running agents for all platforms")}
    /\ pc' = "all_loop"
    /\ UNCHANGED <<entry, env, fs, args, stdin, factory, config, selected, profile,
                   fail_at, exc, started, stop_calls, built, attempts, exit_status>>
    /\ UNCHANGED <<exc_args, calls>>

AllLoop ==
    /\ pc = "all_loop"
    /\ IF queue = <<>>
       THEN /\ in_all' = FALSE
            /\ exit_status' = 0
            /\ pc' = "exit"
            /\ UNCHANGED <<selected, queue, out>>
       ELSE /\ selected' = Head(queue)
            /\ queue' = Tail(queue)
            /\ out' = out \cup {PMsg("Starting agent", Head(queue))}
            /\ pc' = "run_single_platform"
            /\ UNCHANGED <<in_all, exit_status>>
    /\ UNCHANGED <<entry, env, fs, args, stdin, factory, config, profile, fail_at,
                   exc, started, stop_calls, built, attempts>>
    /\ UNCHANGED <<exc_args, calls>>

\* Variant: the registry is indexed without the membership test, so an
\* unknown name surfaces as the mapping's KeyError, which names no platform.
create_platform_lookup(environ, files, platform_name, kw) ==
    IF platform_name \notin PlatformNames
    THEN [exc |-> "KeyError", value |-> NoProfile, constructed |-> FALSE,
          args |-> [text |-> "", name |-> platform_name, available |-> <<>>]]
    ELSE LET made == PlatformInit(environ, files, platform_name, kw)
         IN  [exc |-> made.exc, value |-> made.value, constructed |-> TRUE,
              args |-> NoExcArgs]

\* create_platform: the registry lookup, then the variant's constructor.
create_platform(environ, files, platform_name, kw) ==
    IF platform_name \notin PlatformNames
    THEN [exc |-> "ValueError", value |-> NoProfile, constructed |-> FALSE,
          args |-> [text |-> "Unknown platform", name |-> platform_name,
                    available |-> get_available_platforms]]
    ELSE LET made == PlatformInit(environ, files, platform_name, kw)
         IN  [exc |-> made.exc, value |-> made.value, constructed |-> TRUE,
              args |-> NoExcArgs]

\* run_single_platform up to its first await: create the platform.
RunSinglePlatform ==
    /\ pc = "run_single_platform"
    /\ attempts' = Append(attempts, selected)
    /\ out' = out \cup {PMsg("Starting dating agent", selected)}
    /\ fail_at' = "none"
    /\ LET made == create_platform(env, fs, selected, config)
       IN  /\ built' = IF made.constructed THEN Append(built, selected) ELSE built
           /\ profile' = made.value
           /\ exc' = made.exc
           /\ exc_args' = made.args
           /\ calls' = <<>>
           /\ pc' = IF made.exc = "none" THEN "run" ELSE "single_except"
    /\ UNCHANGED <<entry, env, fs, args, stdin, factory, config, selected, queue,
                   in_all, started, stop_calls, exit_status>>

\* A caller calls create_platform and keeps what it returns.
CreatePlatform ==
    /\ pc = "create_platform"
    /\ LET made == create_platform(env, fs, selected, config)
       IN  /\ built' = IF made.constructed THEN Append(built, selected) ELSE built
           /\ profile' = made.value
           /\ exc' = made.exc
           /\ exc_args' = made.args
           /\ pc' = "caller"
    /\ UNCHANGED <<entry, env, fs, args, stdin, factory, config, selected, queue,
                   in_all, fail_at, calls, started, stop_calls, attempts, out,
                   exit_status>>

\* A caller constructs the platform itself.
PlatformConstruct ==
    /\ pc = "construct"
    /\ fail_at' = "none"
    /\ LET made == PlatformInit(env, fs, selected, config)
       IN  /\ built' = Append(built, selected)
           /\ profile' = made.value
           /\ exc' = made.exc
           /\ exc_args' = NoExcArgs
           /\ calls' = <<>>
           /\ pc' = IF made.exc = "none" THEN "run" ELSE "caller"
    /\ UNCHANGED <<entry, env, fs, args, stdin, factory, config, selected, queue,
                   in_all, started, stop_calls, attempts, out, exit_status>>

\* ---------------------------------------------------------------- Platform.run

\* A call of the browser-automation library, with what it was given.
Call(name) == [call |-> name, arg |-> None]

\* The exception each external call raises when it fails.
Raises ==
    [start |-> "StartError", navigate |-> "NavigateError",
     agent_init |-> "AgentInitError", agent_run |-> "AgentRunError",
     stop |-> "StopError"]

\* Where control goes when run returns (ok) or raises (~ok).
AfterRun(ok) ==
    IF entry = "Platform" THEN "caller"
    ELSE IF ok THEN "single_done" ELSE "single_except"

\* BrowserSession(browser_profile=BrowserProfile(...)) as run calls it.
BrowserSessionCall(user_data_dir, trace) ==
    [call |-> "BrowserSession",
     arg |-> PyDict([user_data_dir |-> user_data_dir, trace_path |-> trace])]

\* Variant: start() is awaited inside the try block, so its failure runs
\* the finally clause too.
RunStartInsideTry ==
    /\ pc = "run"
    /\ LET dir == profile_dir(profile)
           trace == trace_path(profile)
       IN  IF dir.exc # "none" \/ trace.exc # "none"
           THEN /\ fail_at' = "browser_profile"
                /\ exc' = IF dir.exc # "none" THEN dir.exc ELSE trace.exc
                /\ pc' = AfterRun(FALSE)
                /\ out' = IF Truthy(profile.verbose)
                          THEN out \cup {Msg("Configuration")} ELSE out
                /\ UNCHANGED <<started, calls>>
           ELSE /\ out' = IF Truthy(profile.verbose)
                          THEN out \cup {Msg("Configuration"), Msg("Profile dir")}
                          ELSE out
                /\ calls' = calls \o <<BrowserSessionCall(dir.value, trace.value),
                                       Call("start")>>
                /\ \E ok \in BOOLEAN :
                      IF ok
                      THEN /\ started' = [started EXCEPT ![profile.name] = TRUE]
                           /\ pc' = "navigate"
                           /\ UNCHANGED <<fail_at, exc>>
                      ELSE /\ fail_at' = "start"
                           /\ exc' = Raises.start
                           /\ pc' = "stop"
                           /\ UNCHANGED started
    /\ UNCHANGED <<entry, env, fs, args, stdin, factory, config, selected, queue,
                   in_all, profile, stop_calls, built, attempts, exit_status,
                   exc_args>>

\* run up to the try block: the verbose report, BrowserSession(...) with the
\* profile directory and trace path, and `await browser_session.start()`.
\* Reading either path can raise; start() can raise.
RunStart ==
    /\ pc = "run"
    /\ LET dir == profile_dir(profile)
           trace == trace_path(profile)
       IN  IF dir.exc # "none" \/ trace.exc # "none"
           THEN /\ fail_at' = "browser_profile"
                /\ exc' = IF dir.exc # "none" THEN dir.exc ELSE trace.exc
                /\ pc' = AfterRun(FALSE)
                /\ out' = IF Truthy(profile.verbose)
                          THEN out \cup {Msg("Configuration")} ELSE out
                /\ UNCHANGED <<started, calls>>
           ELSE /\ out' = IF Truthy(profile.verbose)
                          THEN out \cup {Msg("Configuration"), Msg("Profile dir")}
                          ELSE out
                /\ calls' = calls \o <<BrowserSessionCall(dir.value, trace.value),
                                       Call("start")>>
                /\ \E ok \in BOOLEAN :
                      IF ok
                      THEN /\ started' = [started EXCEPT ![profile.name] = TRUE]
                           /\ pc' = "navigate"
                           /\ UNCHANGED <<fail_at, exc>>
                      ELSE /\ fail_at' = "start"
                           /\ exc' = Raises.start
                           /\ pc' = AfterRun(FALSE)
                           /\ UNCHANGED started
    /\ UNCHANGED <<entry, env, fs, args, stdin, factory, config, selected, queue,
                   in_all, profile, stop_calls, built, attempts, exit_status,
                   exc_args>>

\* One external call inside the try block: it returns, or it raises and
\* control jumps to the finally clause.
TryStep(here, next) ==
    \E ok \in BOOLEAN :
        IF ok
        THEN /\ pc' = next
             /\ UNCHANGED <<fail_at, exc>>
        ELSE /\ fail_at' = here
             /\ exc' = Raises[here]
             /\ pc' = "stop"

\* `await browser_session.navigate(self.url)`
RunNavigate ==
    /\ pc = "navigate"
    /\ TryStep("navigate", "agent_init")
    /\ calls' = Append(calls, Call("navigate"))
    /\ UNCHANGED <<entry, env, fs, args, stdin, factory, config, selected, queue,
                   in_all, profile, started, stop_calls, built, attempts, out,
                   exit_status>>
    /\ UNCHANGED exc_args

\* `Agent(task=self.task, ...)`: builds the task text and the LLM client.
RunAgentInit ==
    /\ pc = "agent_init"
    /\ TryStep("agent_init", "agent_run")
    /\ calls' = Append(calls, Call("Agent"))
    /\ UNCHANGED <<entry, env, fs, args, stdin, factory, config, selected, queue,
                   in_all, profile, started, stop_calls, built, attempts, out,
                   exit_status>>
    /\ UNCHANGED exc_args

\* `await agent.run()`
RunAgentRun ==
    /\ pc = "agent_run"
    /\ TryStep("agent_run", "stop")
    /\ calls' = Append(calls, Call("agent.run"))
    /\ UNCHANGED <<entry, env, fs, args, stdin, factory, config, selected, queue,
                   in_all, profile, started, stop_calls, built, attempts, out,
                   exit_status>>
    /\ UNCHANGED exc_args

\* Variant: the finally clause swallows the failure (a bare `except: pass`).
FinallyExcSwallow(pending, stop_ok) == IF stop_ok THEN "none" ELSE Raises.stop

\* The exception in flight when the finally clause is left: the pending one,
\* unless stop() itself raises.
FinallyExc(pending, stop_ok) == IF stop_ok THEN pending ELSE Raises.stop

\* Variant: the session is stopped only when the try block succeeded.
StopCallsOnSuccessOnly(pending) == IF pending = "none" THEN 1 ELSE 0

\* Calls of stop() the finally clause makes.
StopCalls(pending) == 1

\* finally: `await browser_session.stop()`, then run returns or re-raises.
RunStop ==
    /\ pc = "stop"
    /\ \E ok \in BOOLEAN :
          /\ stop_calls' = [stop_calls EXCEPT ![profile.name] = @ + StopCalls(exc)]
          /\ calls' = IF StopCalls(exc) = 1 THEN Append(calls, Call("stop")) ELSE calls
          /\ exc' = FinallyExc(exc, ok)
          /\ fail_at' = IF ~ok /\ fail_at = "none" THEN "stop" ELSE fail_at
          /\ pc' = AfterRun(exc' = "none")
    /\ UNCHANGED <<entry, env, fs, args, stdin, factory, config, selected, queue,
                   in_all, profile, started, built, attempts, out, exit_status>>
    /\ UNCHANGED exc_args

\* ---------------------------------------------------------------- handlers

\* run_single_platform after `await platform.run()` returned.
SingleDone ==
    /\ pc = "single_done"
    /\ IF in_all
       THEN /\ out' = out \cup {PMsg("agent completed successfully", selected),
                                PMsg("agent session ended", selected)}
            /\ pc' = "all_loop"
            /\ UNCHANGED exit_status
       ELSE /\ out' = out \cup {PMsg("agent completed successfully", selected)}
            /\ exit_status' = 0
            /\ pc' = "exit"
    /\ UNCHANGED <<entry, env, fs, args, stdin, factory, config, selected, queue,
                   in_all, profile, fail_at, exc, started, stop_calls, built,
                   attempts>>
    /\ UNCHANGED <<exc_args, calls>>

\* Variant: run_single_platform logs the failure and returns normally.
SingleExceptSuppress ==
    /\ pc = "single_except"
    /\ out' = out \cup {PMsg("Error running agent", selected)}
    /\ exc' = "none"
    /\ IF in_all
       THEN pc' = "all_loop" /\ UNCHANGED exit_status
       ELSE pc' = "exit" /\ exit_status' = 0
    /\ UNCHANGED <<entry, env, fs, args, stdin, factory, config, selected, queue,
                   in_all, profile, fail_at, started, stop_calls, built,
                   attempts>>
    /\ UNCHANGED <<exc_args, calls>>

\* run_single_platform's `except Exception`: log, then re-raise.
SingleExcept ==
    /\ pc = "single_except"
    /\ out' = out \cup {PMsg("Error running agent", selected)}
    /\ pc' = IF in_all THEN "all_except" ELSE "fatal"
    /\ UNCHANGED <<entry, env, fs, args, stdin, factory, config, selected, queue,
                   in_all, profile, fail_at, exc, started, stop_calls, built,
                   attempts, exit_status>>
    /\ UNCHANGED <<exc_args, calls>>

\* Variant: run_all_platforms logs the failure and re-raises it.
AllExceptReraise ==
    /\ pc = "all_except"
    /\ out' = out \cup {PMsg("Error running agent (all)", selected)}
    /\ pc' = "fatal"
    /\ UNCHANGED <<entry, env, fs, args, stdin, factory, config, selected, queue,
                   in_all, profile, fail_at, exc, started, stop_calls, built,
                   attempts, exit_status>>
    /\ UNCHANGED <<exc_args, calls>>

\* run_all_platforms' `except Exception`: log, go on with the next platform.
AllExcept ==
    /\ pc = "all_except"
    /\ out' = out \cup {PMsg("Error running agent (all)", selected),
                        PMsg("agent session ended", selected)}
    /\ exc' = "none"
    /\ exc_args' = NoExcArgs
    /\ fail_at' = "none"
    /\ calls' = <<>>
    /\ pc' = "all_loop"
    /\ UNCHANGED <<entry, env, fs, args, stdin, factory, config, selected, queue,
                   in_all, profile, started, stop_calls, built, attempts,
                   exit_status>>

\* run_from_args' `except Exception`: report and sys.exit(1).
Fatal ==
    /\ pc = "fatal"
    /\ out' = out \cup {Msg("Fatal error")}
    /\ exc' = "SystemExit"
    /\ exc_args' = NoExcArgs
    /\ UNCHANGED calls
    /\ exit_status' = 1
    /\ pc' = "exit"
    /\ UNCHANGED <<entry, env, fs, args, stdin, factory, config, selected, queue,
                   in_all, profile, fail_at, started, stop_calls, built,
                   attempts>>

Next ==
    \/ AsyncMain
    \/ RunFromArgs
    \/ InteractiveMode
    \/ RunAllPlatforms
    \/ AllLoop
    \/ RunSinglePlatform
    \/ CreatePlatform
    \/ PlatformConstruct
    \/ RunStart
    \/ RunNavigate
    \/ RunAgentInit
    \/ RunAgentRun
    \/ RunStop
    \/ SingleDone
    \/ SingleExcept
    \/ AllExcept
    \/ Fatal

Spec == Init /\ [][Next]_vars

TypeOK ==
    /\ entry \in {"main", "run_from_args", "Platform", "create_platform"}
    /\ exit_status \in {0 - 1, 0, 1, 2}
    /\ \A p \in PlatformNames : stop_calls[p] \in 0..1

\* ---------------------------------------------------------------- properties

\* A platform instance exists (its constructor returned).
Constructed == profile # NoProfile

\* The overrides the constructor received (config_path is its own parameter).
Overrides == [k \in DOMAIN config \ {"config_path"} |-> config[k]]

\* The node reached after the first i segments of keys, when they all exist.
RECURSIVE NodeAt(_, _, _)
NodeAt(doc, keys, i) ==
    IF i = 0 THEN doc ELSE NodeAt(doc, keys, i - 1).v[keys[i]]

\* Every segment of keys names a present key of a mapping.
PathPresent(doc, keys) ==
    \A i \in 1..Len(keys) :
        /\ \A j \in 1..(i - 1) : NodeAt(doc, keys, j - 1).t = "dict"
                                 /\ keys[j] \in DOMAIN NodeAt(doc, keys, j - 1).v
        /\ NodeAt(doc, keys, i - 1).t = "dict"
        /\ keys[i] \in DOMAIN NodeAt(doc, keys, i - 1).v

KeysOf(s) == SplitPath(ConfigKey[s])

\* C1: for every tunable setting, whenever the setting's key is present in
\* the overrides the resolved value is the override, falsy values included;
\* the configuration document and the default play no part.
C1_OverrideWins ==
    Constructed =>
        \A s \in Settings :
            s \in DOMAIN Overrides => profile[s] = Overrides[s]

\* A falsy override (headless=False) meets a document that says True.
C1_Witness ==
    /\ Constructed
    /\ "headless" \in DOMAIN Overrides
    /\ Overrides["headless"] = PyBool(FALSE)
    /\ PathPresent(profile.config, KeysOf("headless"))
    /\ NodeAt(profile.config, KeysOf("headless"), 2) = PyBool(TRUE)
    /\ profile.headless = PyBool(FALSE)

\* C2 as stated: for every setting absent from the overrides, a present
\* dotted path gives exactly the stored value (JSON null included), anything
\* else gives the built-in default.
C2_Original ==
    Constructed =>
        \A s \in Settings \ DOMAIN Overrides :
            IF PathPresent(profile.config, KeysOf(s))
            THEN profile[s] = NodeAt(profile.config, KeysOf(s), Len(KeysOf(s)))
            ELSE profile[s] = defaults[s]

\* C2 amended: for every setting absent from the overrides, a present dotted
\* path whose stored value is not JSON null gives exactly that value (falsy
\* values included); a missing key, a non-mapping intermediate node or a
\* stored null gives the built-in default.
C2_StoredValueUnlessNull ==
    Constructed =>
        \A s \in Settings \ DOMAIN Overrides :
            IF /\ PathPresent(profile.config, KeysOf(s))
               /\ NodeAt(profile.config, KeysOf(s), Len(KeysOf(s))) # None
            THEN profile[s] = NodeAt(profile.config, KeysOf(s), Len(KeysOf(s)))
            ELSE profile[s] = defaults[s]

\* One document gives a falsy value (width 0) that is kept, the model ""
\* that is kept, and no height, which falls back to the default.
C2_Witness ==
    /\ Constructed
    /\ Overrides = EmptyMap
    /\ profile.config = DocFalsy
    /\ profile.viewport_width = PyInt(0)
    /\ profile.model = PyStr("")
    /\ profile.viewport_height = defaults.viewport_height

\* The configuration file the constructor looks for.
ConfigFile ==
    FileAt(fs, IF "config_path" \in DOMAIN config
               THEN config["config_path"].v ELSE get_default_config_path(env))

Last(seq) == seq[Len(seq)]

\* C7: construction never fails because the configuration file is missing:
\* with no file at the path (default or explicit) the profile is built on
\* an empty document and every setting without an override has its default.
C7_MissingFileGivesDefaults ==
    /\ built # <<>> => exc # "FileNotFoundError"
    /\ (built # <<>> /\ ConfigFile = Missing /\ fs[BaseTaskTemplate] = Text) =>
          /\ Constructed
          /\ profile.name = Last(built)
          /\ profile.config = EmptyDict
          /\ \A s \in Settings \ DOMAIN Overrides : profile[s] = defaults[s]
          /\ profile.headless = IF "headless" \in DOMAIN Overrides
                                THEN Overrides["headless"] ELSE PyBool(FALSE)
          /\ "model" \notin DOMAIN Overrides => profile.model = PyStr("gpt-4o-mini")

\* An explicitly supplied path that does not exist.
C7_Witness ==
    /\ Constructed
    /\ "config_path" \in DOMAIN config
    /\ ConfigFile = Missing
    /\ profile.config = EmptyDict
    /\ profile.viewport_width = PyInt(1280)
    /\ profile.viewport_height = PyInt(1100)
    /\ profile.min_wait = PyInt(1)
    /\ profile.max_wait = PyInt(10)

\* ---------------------------------------------------------------- dispatcher properties

RanAll == Msg("Running agents for all platforms") \in out
Menu == Msg("Available dating platforms:") \in out
GuidanceMissing == Msg("Error: You must specify a platform or use --interactive") \in out
GuidanceUnknown == Msg("Error: Unknown platform") \in out
Completed(p) == PMsg("agent completed successfully", p) \in out
LoggedBySingle(p) == PMsg("Error running agent", p) \in out
LoggedByAll(p) == PMsg("Error running agent (all)", p) \in out

\* run_from_args has taken its branch.
Dispatched ==
    /\ entry \in {"main", "run_from_args"}
    /\ pc \notin {"async_main", "run_from_args"}
    /\ Msg("Traceback") \notin out
    /\ Msg("usage: invalid choice") \notin out

\* C3: runAll attempts every registered platform exactly once, in registry
\* order, whichever platforms fail to construct or to run; a failure is
\* caught and logged, aborts nothing, causes no retry, and runAll returns
\* normally.
C3_RunAllAttemptsAll ==
    /\ in_all =>
          /\ pc \notin {"fatal", "exit"}
          /\ platforms = attempts \o (IF pc = "run_single_platform"
                                     THEN <<selected>> ELSE <<>>) \o queue
    /\ RanAll => exit_status \in {0 - 1, 0} /\ pc # "fatal"
    /\ (RanAll /\ pc = "exit") =>
          /\ attempts = platforms
          /\ exit_status = 0
          /\ exc = "none"
          /\ Msg("Fatal error") \notin out
          /\ \A p \in PlatformNames :
                /\ PMsg("agent session ended", p) \in out
                /\ Completed(p) # LoggedByAll(p)
                /\ ~started[p] => LoggedByAll(p) /\ LoggedBySingle(p)
          /\ fs[BaseTaskTemplate] = Missing => built = platforms

\* runAll has returned although the first and the third platform failed;
\* the last one ran to completion.
C3_Witness ==
    /\ RanAll
    /\ pc = "exit"
    /\ LoggedByAll("bumble")
    /\ started["bumble"]
    /\ ~started["hinge"]
    /\ Completed("okcupid")

\* Platform.run has handed control back (returned or raised).
RunReturned ==
    /\ pc \in {"single_done", "single_except", "caller"}
    /\ Constructed

\* C4: a session that was started is stopped exactly once before run hands
\* control back, on every exit path; after a failure in navigation, agent
\* construction or the agent's run the failure that propagates, once stop
\* has returned, is the original one.
C4_SessionStoppedOnce ==
    /\ \A p \in PlatformNames :
          /\ stop_calls[p] <= 1
          /\ stop_calls[p] = 1 => started[p]
    /\ RunReturned =>
          /\ started[profile.name] => stop_calls[profile.name] = 1
          /\ fail_at \in {"navigate", "agent_init", "agent_run"} =>
                /\ started[profile.name]
                /\ stop_calls[profile.name] = 1
                /\ exc # Raises.stop => exc = Raises[fail_at]
                /\ pc # "single_done"
          /\ (fail_at = "none") = (exc = "none")
    /\ pc = "exit" => \A p \in PlatformNames : started[p] => stop_calls[p] = 1

\* The agent could not be constructed; the session was stopped and the
\* construction failure is what run_single_platform sees.
C4_Witness ==
    /\ pc = "single_except"
    /\ Constructed
    /\ fail_at = "agent_init"
    /\ started[profile.name]
    /\ stop_calls[profile.name] = 1
    /\ exc = "AgentInitError"

\* The session of p is open: started, stop not yet called.
Open(p) == started[p] /\ stop_calls[p] = 0

\* C5: under runAll at most one session is open at any moment; when the
\* next platform is constructed, and when its session is started, every
\* earlier session has been stopped or was never started.
C5_OneSessionAtATime ==
    /\ Cardinality({p \in PlatformNames : Open(p)}) <= 1
    /\ pc \in {"all_loop", "run_single_platform", "run", "single_except",
               "all_except", "single_done"} =>
          \A p \in PlatformNames : ~Open(p)
    /\ \A p \in PlatformNames : Open(p) => Constructed /\ p = profile.name

\* The second platform is about to start its session after the first one
\* failed with its session started.
C5_Witness ==
    /\ in_all
    /\ pc = "run"
    /\ profile.name = "tinder"
    /\ LoggedByAll("bumble")
    /\ started["bumble"]
    /\ stop_calls["bumble"] = 1

\* C6: started from the command line as `tinder --headless --model gpt-4`
\* with no file at the default configuration path and no --config, the
\* process reaches the platform run: a Tinder profile is constructed with
\* headless true, model gpt-4 and the default viewport width 1280.
C6_NoConfigFileStillRuns ==
    (/\ entry = "main"
     /\ fs[DefaultConfigPath] = Missing
     /\ fs[BaseTaskTemplate] = Text
     /\ args.config = None
     /\ ~args.interactive
     /\ args.platform = PyStr("tinder")
     /\ args.headless
     /\ args.model = PyStr("gpt-4")
     /\ pc = "exit") =>
        /\ attempts = <<"tinder">>
        /\ built = <<"tinder">>
        /\ Constructed
        /\ profile.name = "tinder"
        /\ profile.headless = PyBool(TRUE)
        /\ profile.model = PyStr("gpt-4")
        /\ profile.viewport_width = PyInt(1280)

\* C8 as stated: a malformed configuration file met during profile
\* construction is fatal on every dispatch path: the process reports a
\* fatal error and exits with a non-zero status.
C8_Original ==
    (/\ entry # "Platform"
     /\ built # <<>>
     /\ ConfigFile = Malformed
     /\ pc = "exit") =>
        /\ exit_status # 0
        /\ Msg("Fatal error") \in out

\* C8 amended: the constructor never swallows the parse error.  On the
\* single-platform paths (a named platform, an interactive choice of one
\* platform) it reaches the top level, is reported as a fatal error and the
\* process exits with status 1.  Under runAll (`all`, or the interactive
\* choice of all platforms) it is caught and logged for each platform in
\* turn, every platform is still attempted, and the exit status is 0.
C8_ParseErrorFatalExceptUnderRunAll ==
    (/\ entry # "Platform"
     /\ built # <<>>
     /\ ConfigFile = Malformed) =>
        /\ ~Constructed
        /\ \A p \in PlatformNames : ~started[p]
        /\ pc \in {"single_except", "all_except", "fatal"} => exc = "JSONDecodeError"
        /\ pc = "exit" =>
              IF RanAll
              THEN /\ exit_status = 0
                   /\ Msg("Fatal error") \notin out
                   /\ attempts = platforms
                   /\ built = platforms
                   /\ \A p \in PlatformNames : LoggedByAll(p) /\ ~Completed(p)
              ELSE /\ exit_status = 1
                   /\ Msg("Fatal error") \in out
                   /\ Len(built) = 1
                   /\ LoggedBySingle(built[1])

\* An interactive choice of one platform met the malformed file.
C8_Witness ==
    /\ entry = "main"
    /\ args.interactive
    /\ built = <<"hinge">>
    /\ ConfigFile = Malformed
    /\ pc = "exit"
    /\ exit_status = 1
    /\ Msg("Fatal error") \in out

\* The answer interactive_mode returned on.
Answer == Choose(Last(stdin))

\* C9: run_from_args executes exactly one dispatch path: the interactive
\* selection when the flag is set (the positional value is ignored), else
\* runAll for `all`, else runOne for a registered name, else guidance is
\* printed, nothing is run and the process ends with a non-zero status.
C9_ExactlyOneDispatchPath ==
    Dispatched =>
        IF args.interactive
        THEN /\ Menu /\ ~GuidanceMissing /\ ~GuidanceUnknown
             /\ (RanAll \/ attempts # <<>>
                   \/ pc \in {"run_all_platforms", "run_single_platform"}) =>
                   /\ stdin # <<>>
                   /\ Answer.kind = "return"
                   /\ Answer.value # None
                   /\ IF Answer.value = PyStr("all")
                      THEN RanAll \/ pc = "run_all_platforms"
                      ELSE /\ ~RanAll /\ pc # "run_all_platforms"
                           /\ selected = Answer.value.v
                           /\ attempts \in {<<>>, <<selected>>}
        ELSE IF args.platform = PyStr("all")
        THEN /\ ~Menu /\ ~GuidanceMissing /\ ~GuidanceUnknown
             /\ stdin = <<>>
             /\ RanAll \/ pc = "run_all_platforms"
        ELSE IF args.platform # None /\ args.platform.v \in PlatformNames
        THEN /\ ~Menu /\ ~GuidanceMissing /\ ~GuidanceUnknown
             /\ stdin = <<>>
             /\ ~RanAll /\ pc # "run_all_platforms"
             /\ selected = args.platform.v
             /\ attempts \in {<<>>, <<selected>>}
        ELSE /\ ~Menu /\ ~RanAll
             /\ stdin = <<>>
             /\ GuidanceMissing = (args.platform = None)
             /\ GuidanceUnknown = (args.platform # None)
             /\ attempts = <<>> /\ built = <<>>
             /\ pc = "exit"
             /\ exit_status = 1

\* The interactive flag with the positional value `all`: the menu decides,
\* and only the chosen platform is run.
C9_Witness ==
    /\ Dispatched
    /\ args.interactive
    /\ args.platform = PyStr("all")
    /\ stdin = <<"2">>
    /\ attempts = <<"tinder">>
    /\ ~RanAll
    /\ pc = "exit"

\* The single platform run failed: no instance, or a call of run raised.
SingleFailed == ~Constructed \/ fail_at # "none"

Accepted(s) ==
    /\ s \in {"1", "2", "3", "4", "5", "6"}
    /\ ParseInt(s).n \in 1..(Len(platforms) + 2)

\* interactive_mode has returned (it was entered and did not raise).
Selected ==
    /\ Menu
    /\ pc # "interactive_mode"
    /\ stdin # <<>>
    /\ Last(stdin) # "EOF"

\* C11: interactive selection consumes answers until the first integer in
\* 1..N+2 and returns only then; non-numeric answers and integers outside
\* the range (0 and negatives included) are rejected and prompted again
\* without changing any state; k in 1..N returns the k-th registered name,
\* N+1 returns `all`, N+2 returns None.  ["abc", "99", "2"] returns the
\* second platform.
C11_InteractiveSelection ==
    /\ pc = "interactive_mode" =>
          /\ \A i \in 1..Len(stdin) : ~Accepted(stdin[i]) /\ stdin[i] # "EOF"
          /\ selected = "none" /\ queue = <<>> /\ ~in_all
          /\ attempts = <<>> /\ built = <<>> /\ ~Constructed
          /\ exc = "none" /\ exit_status = 0 - 1
          /\ out \subseteq {Msg("Available dating platforms:"),
                            Msg("Please enter a valid number."),
                            Msg("Invalid choice.")}
    /\ Selected =>
          /\ \A i \in 1..(Len(stdin) - 1) : ~Accepted(stdin[i])
          /\ Accepted(Last(stdin))
          /\ LET k == ParseInt(Last(stdin)).n
             IN  /\ k \in 1..Len(platforms) =>
                       /\ selected = platforms[k]
                       /\ ~RanAll /\ pc # "run_all_platforms"
                       /\ attempts \in {<<>>, <<platforms[k]>>}
                 /\ k = Len(platforms) + 1 =>
                       /\ RanAll \/ pc = "run_all_platforms"
                       /\ Msg("Goodbye!") \notin out
                 /\ k = Len(platforms) + 2 =>
                       /\ Msg("Goodbye!") \in out
                       /\ attempts = <<>> /\ ~RanAll /\ pc = "exit"
    /\ (Selected /\ stdin = <<"abc", "99", "2">>) => selected = "tinder"
    /\ (Menu /\ stdin # <<>> /\ Last(stdin) = "EOF") =>
          /\ attempts = <<>> /\ ~RanAll
          /\ \A i \in 1..(Len(stdin) - 1) : ~Accepted(stdin[i])

\* "abc" and "99" were rejected, "2" chose the second platform, which ran.
C11_Witness ==
    /\ Selected
    /\ stdin = <<"abc", "99", "2">>
    /\ attempts = <<"tinder">>
    /\ Msg("Please enter a valid number.") \in out
    /\ Msg("Invalid choice.") \in out

\* create_platform has returned or raised: called by a caller of the
\* factory, or by run_single_platform.
Created ==
    \/ entry = "create_platform" /\ pc = "caller"
    \/ pc \in {"run", "single_except"} /\ fail_at = "none" /\ attempts # <<>>

\* C12: create_platform with a name outside the registry raises the
\* unknown-platform error, whose message lists every registered name, before
\* anything is constructed (no configuration read, no template rendered);
\* with a registered name it constructs the platform of exactly that name.
C12_UnknownPlatformRejectedFirst ==
    /\ (Created /\ selected \notin PlatformNames) =>
          /\ exc = "ValueError"
          /\ exc_args = [text |-> "Unknown platform", name |-> selected,
                         available |-> platforms]
          /\ \A p \in PlatformNames :
                \E i \in 1..Len(exc_args.available) : exc_args.available[i] = p
          /\ built = <<>>
          /\ ~Constructed
    /\ (Created /\ selected \in PlatformNames) =>
          /\ Last(built) = selected
          /\ exc # "ValueError"
          /\ exc_args = NoExcArgs
          /\ exc = "none" <=> Constructed
          /\ Constructed => profile.name = selected

\* An unknown name is refused although the configuration file it would
\* have read is malformed and the template is missing: neither was opened.
C12_Witness ==
    /\ Created
    /\ selected = "grindr"
    /\ exc = "ValueError"
    /\ exc_args.available = platforms
    /\ DictGet(config, "config_path") = PyStr(CliConfigPath)
    /\ fs[CliConfigPath] = Malformed
    /\ fs[BaseTaskTemplate] = Missing

\* The template the configuration document holds under paths.<key>, else
\* the built-in one.
TemplateOf(doc, key, builtin) ==
    IF PathPresent(doc, <<"paths", key>>)
    THEN NodeAt(doc, <<"paths", key>>, 2)
    ELSE PyStr(builtin)

\* What run handed to BrowserSession(...) for the profile under run.
SessionPaths == calls[1].arg.v

\* C13 as stated: the profile directory and the trace path each equal the
\* override whenever one was supplied at construction, an empty string
\* included; with no override they equal the template (from the
\* configuration document, else the built-in one) with {platform} replaced
\* by the platform's name.
C13_PathsFollowOverride ==
    (Constructed /\ calls # <<>>) =>
        /\ IF "profile_dir" \in DOMAIN Overrides
           THEN SessionPaths.user_data_dir = Overrides["profile_dir"]
           ELSE SessionPaths.user_data_dir =
                   PyStr(FormatPlatform(
                       TemplateOf(profile.config, "profile_dir_template",
                                  "~/.config/browseruse/profiles/{platform}").v,
                       profile.name).value)
        /\ IF "trace_path" \in DOMAIN Overrides
           THEN SessionPaths.trace_path = Overrides["trace_path"]
           ELSE SessionPaths.trace_path =
                   PyStr(FormatPlatform(
                       TemplateOf(profile.config, "trace_path_template",
                                  "/tmp/wifebot/{platform}").v,
                       profile.name).value)

\* ${XDG_CONFIG_HOME:-~/.config}/wifebot/config.json in the environment.
XdgDefault ==
    IF "XDG_CONFIG_HOME" \in DOMAIN env /\ env["XDG_CONFIG_HOME"] # PyStr("")
    THEN env["XDG_CONFIG_HOME"].v \o "/wifebot/config.json"
    ELSE "~/.config/wifebot/config.json"

\* The path the precedence rule selects: the flag, the factory's, the default.
ChosenPath ==
    IF args.config \notin {None, PyStr("")} THEN args.config.v
    ELSE IF factory.config_path # None THEN factory.config_path.v
    ELSE XdgDefault

Called == {calls[i].call : i \in 1..Len(calls)}

\* C15: when browser_session.start() itself fails, stop() is never called
\* on that session, neither navigation nor the agent is attempted, and the
\* failure of start() propagates unchanged: run_single_platform logs and
\* re-raises it, run_all_platforms catches it and goes on with the next
\* platform.
C15_StartFailureSkipsStop ==
    /\ [](fail_at = "start" =>
            /\ Called = {"BrowserSession", "start"}
            /\ Last(calls) = Call("start")
            /\ ~started[profile.name]
            /\ stop_calls[profile.name] = 0
            /\ pc \in {"single_except", "all_except", "fatal", "caller", "exit"}
            /\ pc # "exit" => exc = Raises.start
            /\ pc \in {"all_except", "fatal", "exit"} => LoggedBySingle(profile.name)
            /\ pc = "exit" => exit_status = 1 /\ ~in_all)
    /\ [][(fail_at = "start" /\ pc = "single_except") =>
            /\ exc' = exc
            /\ pc' = IF in_all THEN "all_except" ELSE "fatal"]_vars
    /\ [][(fail_at = "start" /\ pc = "all_except") =>
            /\ pc' = "all_loop"
            /\ exc' = "none"
            /\ queue' = queue
            /\ attempts' = attempts
            /\ LoggedByAll(profile.name)']_vars

\* Under run_all_platforms the second platform's start() has failed and
\* reached the loop's handler, with platforms still to run.
C15_Witness ==
    /\ fail_at = "start"
    /\ in_all
    /\ pc = "all_except"
    /\ exc = Raises.start
    /\ Len(attempts) = 2
    /\ queue # <<>>
    /\ stop_calls[profile.name] = 0

====
